---- MODULE Spec2Model ----
(***************************************************************************)
(* Biorem Compliance: the reminder lifecycle (generate, dispatch,          *)
(* complete, escalate, cancel) of backend/app/bot/scheduler.py,            *)
(* backend/app/bot/handlers.py and backend/app/api/compliance.py, and the  *)
(* evidence record of backend/app/models/compliance.py.                    *)
(*                                                                         *)
(* Time is a count of clock ticks; a calendar day has TicksPerDay ticks.   *)
(* A nullable column holds None when it is NULL.  Row ids are the indexes  *)
(* of the rows in their table (a sequence; rows are never deleted).        *)
(***************************************************************************)
EXTENDS Integers, Sequences, FiniteSets, TLC

VARIABLES
    now,        \* datetime.utcnow(), in ticks
    bot,        \* scheduler.bot is set (setup_scheduler ran)
    contacts,   \* table contacts
    locations,  \* table locations
    reminders,  \* table scheduled_reminders
    records,    \* table compliance_records
    sent,       \* messages the Messaging Channel delivered: <<chat contact, reminder id, kind>>
    last,       \* the operation that ran last and its HTTP status code (history)
    gen,        \* the overlapping executions of generate_daily_reminders
    photo,      \* the execution of handle_photo in flight
    esc,        \* the execution of check_escalations in flight
    tasks,      \* ids of the records whose validate_photo_async task is pending
    asked,      \* reminder id -> times send_reminder called bot.send_message (history)
    disp,       \* the execution of send_pending_reminders in flight
    val         \* the execution of validate_photo_async in flight

vars == <<now, bot, contacts, locations, reminders, records, sent, last, gen, photo, esc, tasks, asked, disp, val>>

None == 0 - 1

-----------------------------------------------------------------------------
(* Bounds of the model *)

TicksPerDay == 2          \* clock ticks in one calendar day
MaxDay == 2               \* the clock stops at the end of day MaxDay (days 0..MaxDay)
EscalationTicks == 1      \* settings.ESCALATION_MINUTES, in clock ticks
MaxReminders == 2         \* rows of scheduled_reminders
MaxRecords == 1           \* rows of compliance_records
MaxFrequencyDays == 2     \* Location.frequency_days of the model's location
MaxRaceTime == 2          \* the clock of the interleaved handlers stops at MaxRaceTime
MaxStatusTime == 15       \* the latest instant at which the compliance status is asked
MaxStatusFrequency == 3   \* the largest frequency_days of a location whose status is asked
BatchLimit == 1           \* the LIMIT of the dispatch query (50), in rows

(* Program constants *)

MAX_ESCALATION_ATTEMPTS == 3

-----------------------------------------------------------------------------
(* Types *)

PENDING == "pending"
SENT == "sent"
COMPLETED == "completed"
FAILED == "failed"
ESCALATED == "escalated"
CANCELLED == "cancelled"
EXPIRED == "expired"

ReminderStatus == {PENDING, SENT, COMPLETED, FAILED, ESCALATED, CANCELLED, EXPIRED}

ADMIN == "admin"
SUPERVISOR == "supervisor"
OPERADOR == "operador"
READONLY == "readonly"

ContactRole == {ADMIN, SUPERVISOR, OPERADOR, READONLY}

ContactIds == DOMAIN contacts
LocationIds == DOMAIN locations
ReminderIds == DOMAIN reminders
RecordIds == DOMAIN records

MaxTime == (MaxDay + 1) * TicksPerDay - 1

\* datetime.date(): the calendar day of an instant
DateOf(t) == t \div TicksPerDay

\* datetime.combine(day, time(0, 0))
Midnight(day) == day * TicksPerDay

\* date.isoweekday(): 1 = Monday .. 7 = Sunday; day 0 of the model is a Thursday
IsoWeekday(day) == ((day + 3) % 7) + 1

MinutesPerTick == (24 * 60) \div TicksPerDay

\* the row a fresh ScheduledReminder(location_id, contact_id, scheduled_for, status) inserts
ScheduledReminder(location_id, contact_id, scheduled_for) ==
    [location_id |-> location_id,
     contact_id |-> contact_id,
     scheduled_for |-> scheduled_for,
     status |-> PENDING,
     sent_at |-> None,
     responded_at |-> None,
     escalation_count |-> 0,
     escalated_at |-> None,
     escalated_to |-> None,
     compliance_record_id |-> None,
     telegram_message_id |-> None,
     failure_reason |-> ""]

\* a nullable Boolean column: NULL is None, False 0, True 1
Bool(b) == IF b THEN 1 ELSE 0

\* Python truth of a nullable number: NULL and 0 are false
Truthy(x) == x # None /\ x # 0

\* a row whose verdict column defaults to False
ComplianceRecordRejected(location_id, contact_id, reminder_id, photo_latitude, photo_longitude, distance_from_expected, time_diff_minutes) ==
    [location_id |-> location_id,
     contact_id |-> contact_id,
     reminder_id |-> reminder_id,
     photo_received_at |-> now,
     photo_latitude |-> photo_latitude,
     photo_longitude |-> photo_longitude,
     distance_from_expected |-> distance_from_expected,
     time_diff_minutes |-> time_diff_minutes,
     authenticity_score |-> None,
     location_verified |-> None,
     time_verified |-> None,
     ai_validated |-> None,
     ai_confidence |-> None,
     ai_product_detected |-> None,
     ai_drainage_visible |-> None,
     ai_appears_screenshot |-> None,
     ai_issues |-> None,
     manual_validated |-> None,
     validated_by |-> None,
     is_valid |-> Bool(FALSE)]

\* the row a fresh ComplianceRecord(...) inserts, with the Photo Guard fields
\* handle_photo fills in before db.add; distances are in metres, ai_confidence
\* in hundredths
ComplianceRecord(location_id, contact_id, reminder_id, photo_latitude, photo_longitude, distance_from_expected, time_diff_minutes) ==
    [location_id |-> location_id,
     contact_id |-> contact_id,
     reminder_id |-> reminder_id,
     photo_received_at |-> now,
     photo_latitude |-> photo_latitude,
     photo_longitude |-> photo_longitude,
     distance_from_expected |-> distance_from_expected,
     time_diff_minutes |-> time_diff_minutes,
     authenticity_score |-> None,
     location_verified |-> None,
     time_verified |-> None,
     ai_validated |-> None,
     ai_confidence |-> None,
     ai_product_detected |-> None,
     ai_drainage_visible |-> None,
     ai_appears_screenshot |-> None,
     ai_issues |-> None,
     manual_validated |-> None,
     validated_by |-> None,
     is_valid |-> None]

Idle == [pc |-> "idle"]

\* no HTTP response was returned
NoResponse == [op |-> "none", id |-> None, status_code |-> None, nth |-> 0]

-----------------------------------------------------------------------------
(* The Directory: contacts and locations *)

\* Client 1: an operator, a supervisor and an admin, all linked
ContactsInit(admin_active) ==
    [c \in 1..3 |->
        [client_id |-> 1,
         role |-> CASE c = 1 -> OPERADOR [] c = 2 -> SUPERVISOR [] OTHER -> ADMIN,
         active |-> IF c = 3 THEN admin_active ELSE TRUE,
         telegram_id |-> c]]

\* One location of client 1 with the column default of reminder_days
\* ("1,2,3,4,5"), due at the second tick of the day
LocationsInit(frequency_days, last_compliance_at) ==
    [l \in 1..1 |->
        [client_id |-> 1,
         active |-> TRUE,
         product_id |-> 1,
         frequency_days |-> frequency_days,
         reminder_time |-> 1,
         reminder_days |-> {1, 2, 3, 4, 5},
         latitude |-> None,
         longitude |-> None,
         last_compliance_at |-> last_compliance_at]]

-----------------------------------------------------------------------------
(* The session: the unit of work writes the attributes it changed *)

\* UPDATE ... SET <changed columns> WHERE id = :id, on the row as it is now:
\* `loaded` is the row the session read, `changed` the row after the handler's
\* assignments, `row` the row in the table when the session commits
Flush(row, loaded, changed) ==
    [f \in DOMAIN row |-> IF changed[f] # loaded[f] THEN changed[f] ELSE row[f]]

-----------------------------------------------------------------------------
(* ScheduledReminder methods *)

mark_as_sent(r, message_id) ==
    [r EXCEPT !.status = SENT, !.sent_at = now, !.telegram_message_id = message_id]

mark_as_escalated(r, escalated_to_id) ==
    [r EXCEPT !.status = ESCALATED,
              !.escalation_count = @ + 1,
              !.escalated_at = now,
              !.escalated_to = escalated_to_id]

-----------------------------------------------------------------------------
(* GenerateDue: generate_daily_reminders *)

\* today - last_compliance_at.date() >= frequency_days, or never complied
CadenceDue(loc, today) ==
    IF loc.last_compliance_at # None
    THEN today - DateOf(loc.last_compliance_at) >= loc.frequency_days
    ELSE TRUE

\* reminder_days is empty (no filter) or holds today's ISO weekday
WeekdayDue(loc, today) ==
    loc.reminder_days = {} \/ IsoWeekday(today) \in loc.reminder_days

\* the client's active contacts with a telegram_id
LinkedContacts(client_id) ==
    {c \in ContactIds : /\ contacts[c].client_id = client_id
                        /\ contacts[c].active
                        /\ contacts[c].telegram_id # None}

\* the lookup with its window one day late
ExistingTodayWindowOff(rs, l, today) ==
    {i \in DOMAIN rs : /\ rs[i].location_id = l
                       /\ rs[i].scheduled_for >= Midnight(today + 1)
                       /\ rs[i].scheduled_for < Midnight(today + 2)
                       /\ rs[i].status # CANCELLED}

\* the lookup counting cancelled reminders too
ExistingTodayCancelled(rs, l, today) ==
    {i \in DOMAIN rs : /\ rs[i].location_id = l
                       /\ rs[i].scheduled_for >= Midnight(today)
                       /\ rs[i].scheduled_for < Midnight(today + 1)}

\* the non-cancelled reminders of the location scheduled within today
ExistingToday(rs, l, today) ==
    {i \in DOMAIN rs : /\ rs[i].location_id = l
                       /\ rs[i].scheduled_for >= Midnight(today)
                       /\ rs[i].scheduled_for < Midnight(today + 1)
                       /\ rs[i].status # CANCELLED}

\* the loop reaches the existing-reminder lookup for this location
ReachesLookup(l, today) ==
    /\ locations[l].active
    /\ locations[l].product_id # None
    /\ CadenceDue(locations[l], today)
    /\ WeekdayDue(locations[l], today)
    /\ LinkedContacts(locations[l].client_id) # {}

\* scalar_one_or_none() raises MultipleResultsFound: the run ends without commit
GenerateRaises(rs, today) ==
    \E l \in LocationIds :
        ReachesLookup(l, today) /\ Cardinality(ExistingToday(rs, l, today)) > 1

\* the rows the loop adds for locations l, l+1, ...; first[l] is contacts[0] of
\* the unordered contact query
RECURSIVE NewReminders(_, _, _, _)
NewReminders(l, rs, today, first) ==
    IF l > Len(locations)
    THEN << >>
    ELSE IF ReachesLookup(l, today) /\ ExistingToday(rs, l, today) = {}
         THEN << ScheduledReminder(l, first[l],
                                   Midnight(today) + locations[l].reminder_time) >>
              \o NewReminders(l + 1, rs, today, first)
         ELSE NewReminders(l + 1, rs, today, first)

\* what one run adds to the table it read
GenerateDue(rs, first) ==
    IF GenerateRaises(rs, DateOf(now))
    THEN << >>
    ELSE NewReminders(1, rs, DateOf(now), first)

\* the possible results of the contact query's first row, per location
FirstContacts ==
    {first \in [LocationIds -> ContactIds] :
        \A l \in LocationIds :
            IF LinkedContacts(locations[l].client_id) = {}
            THEN first[l] = 1
            ELSE first[l] \in LinkedContacts(locations[l].client_id)}

-----------------------------------------------------------------------------
(* Dispatch: send_pending_reminders / send_reminder *)

\* the selection taking FAILED reminders up again
DispatchDueRetryFailed(rs) ==
    {i \in DOMAIN rs : rs[i].status \in {PENDING, FAILED} /\ rs[i].scheduled_for <= now}

\* the selection without its scheduled_for filter
DispatchDueAllPending(rs) ==
    {i \in DOMAIN rs : rs[i].status = PENDING}

\* the PENDING reminders whose scheduled time has passed
DispatchDue(rs) ==
    {i \in DOMAIN rs : rs[i].status = PENDING /\ rs[i].scheduled_for <= now}

\* send_reminder letting the channel's exception out, the row untouched
send_reminder_raises(r, i, delivered) ==
    IF \/ r.contact_id \notin ContactIds
       \/ contacts[r.contact_id].telegram_id = None
    THEN [r EXCEPT !.status = FAILED, !.failure_reason = "Contact not linked"]
    ELSE IF r.location_id \notin LocationIds
    THEN [r EXCEPT !.status = FAILED, !.failure_reason = "Location not found"]
    ELSE IF delivered
    THEN mark_as_sent(r, i)
    ELSE r

\* send_reminder on row r with id i; delivered: bot.send_message returned
send_reminder(r, i, delivered) ==
    IF \/ r.contact_id \notin ContactIds
       \/ contacts[r.contact_id].telegram_id = None
    THEN [r EXCEPT !.status = FAILED, !.failure_reason = "Contact not linked"]
    ELSE IF r.location_id \notin LocationIds
    THEN [r EXCEPT !.status = FAILED, !.failure_reason = "Location not found"]
    ELSE IF delivered
    THEN mark_as_sent(r, i)
    ELSE [r EXCEPT !.status = FAILED, !.failure_reason = "Timed out"]

\* the NotificationLog rows a batch adds
Notified(kind, rs, changed, status) ==
    {[kind |-> kind, reminder_id |-> i,
      contact_id |-> IF kind = "reminder" THEN changed[i].contact_id
                     ELSE changed[i].escalated_to] :
        i \in {j \in DOMAIN rs : rs[j].status # status /\ changed[j].status = status}}

\* the reminders of the batch for which send_reminder reaches bot.send_message
Attempted(rs) ==
    {i \in DispatchDue(rs) : /\ rs[i].contact_id \in ContactIds
                             /\ contacts[rs[i].contact_id].telegram_id # None
                             /\ rs[i].location_id \in LocationIds}

\* the calls of bot.send_message counted so far for reminder i
Asked(i) == IF i \in DOMAIN asked THEN asked[i] ELSE 0

-----------------------------------------------------------------------------
(* Escalate: check_escalations / escalate_reminder *)

\* the selection taking ESCALATED reminders up again
EscalationDueAgain(rs) ==
    {i \in DOMAIN rs : /\ rs[i].status \in {SENT, ESCALATED}
                       /\ rs[i].sent_at <= now - EscalationTicks
                       /\ rs[i].escalation_count < MAX_ESCALATION_ATTEMPTS}

\* the SENT reminders the sweep selects at time `now`
EscalationDue(rs) ==
    {i \in DOMAIN rs : /\ rs[i].status = SENT
                       /\ rs[i].sent_at <= now - EscalationTicks
                       /\ rs[i].escalation_count < MAX_ESCALATION_ATTEMPTS}

\* the supervisor query of escalate_reminder
Supervisors(r) ==
    {c \in ContactIds : /\ contacts[c].client_id = locations[r.location_id].client_id
                        /\ contacts[c].role \in {ADMIN, SUPERVISOR}
                        /\ contacts[c].active
                        /\ contacts[c].telegram_id # None
                        /\ c # r.contact_id}

\* the handler returning without a change when it finds no supervisor
escalate_reminder_skips(r, delivered) ==
    IF r.location_id \notin LocationIds \/ Cardinality(Supervisors(r)) # 1
    THEN r
    ELSE IF delivered
    THEN mark_as_escalated(r, CHOOSE c \in Supervisors(r) : TRUE)
    ELSE r

\* escalate_reminder on row r; delivered: bot.send_message returned
escalate_reminder(r, delivered) ==
    IF r.location_id \notin LocationIds
    THEN r
    ELSE IF Supervisors(r) = {}
    THEN [r EXCEPT !.status = ESCALATED,
                   !.escalation_count = @ + 1,
                   !.escalated_at = now]
    ELSE IF Cardinality(Supervisors(r)) > 1
    THEN r  \* scalar_one_or_none() raises; the except clause logs
    ELSE IF delivered
    THEN mark_as_escalated(r, CHOOSE c \in Supervisors(r) : TRUE)
    ELSE r  \* send_message raises; the except clause logs

-----------------------------------------------------------------------------
(* Complete: handle_photo *)

\* the lookup without its status filter
PendingReminderAnyStatus(rs, c) ==
    LET mine == {i \in DOMAIN rs : rs[i].contact_id = c}
    IN  IF mine = {}
        THEN {None}
        ELSE {i \in mine : \A j \in mine : rs[i].scheduled_for <= rs[j].scheduled_for}

\* the lookup taking ESCALATED reminders as unanswered too
PendingReminderEscalated(rs, c) ==
    LET mine == {i \in DOMAIN rs : rs[i].contact_id = c /\ rs[i].status \in {SENT, ESCALATED}}
    IN  IF mine = {}
        THEN {None}
        ELSE {i \in mine : \A j \in mine : rs[i].scheduled_for <= rs[j].scheduled_for}

\* ORDER BY scheduled_for LIMIT 1 over the contact's SENT reminders; None when
\* there is none
PendingReminder(rs, c) ==
    LET mine == {i \in DOMAIN rs : rs[i].contact_id = c /\ rs[i].status = SENT}
    IN  IF mine = {}
        THEN {None}
        ELSE {i \in mine : \A j \in mine : rs[i].scheduled_for <= rs[j].scheduled_for}

\* the assignments without the link to the evidence
CompletedUnlinked(r, compliance_id) ==
    [r EXCEPT !.status = COMPLETED,
              !.responded_at = now]

\* the assignments of handle_photo on its pending reminder
Completed(r, compliance_id) ==
    [r EXCEPT !.status = COMPLETED,
              !.responded_at = now,
              !.compliance_record_id = compliance_id]

\* without a photo_location in the conversation the handler evaluates
\* contact.has_recent_location(minutes=10); Contact defines no such method, so
\* the handler raises AttributeError before it adds anything to the session
HandlePhotoRaises(photo_location) == photo_location = None

\* the record handle_photo builds for contact c; no distance is computed for a
\* location whose latitude and longitude are NULL
PhotoRecord(rs, c, pending, photo_location) ==
    ComplianceRecord(
        IF pending = None THEN None ELSE rs[pending].location_id,
        c,
        pending,
        photo_location,
        photo_location,
        None,
        IF pending = None THEN None
        ELSE (now - rs[pending].scheduled_for) * MinutesPerTick)

-----------------------------------------------------------------------------
(* Cancel: cancel_reminder *)

\* the handler without its status check
CancelStatusCodeNoCheck(rs, reminder_id) ==
    IF reminder_id \notin DOMAIN rs THEN 404 ELSE 204

\* the status code of DELETE /reminders/{reminder_id}: 404 for an unknown id,
\* 400 for a reminder that is not PENDING, else 204
CancelStatusCode(rs, reminder_id) ==
    IF reminder_id \notin DOMAIN rs
    THEN 404
    ELSE IF rs[reminder_id].status # PENDING
    THEN 400
    ELSE 204

-----------------------------------------------------------------------------
(* The operations, each executed in one step *)

Init ==
    /\ now = 0
    /\ bot = FALSE
    /\ \E admin_active \in BOOLEAN : contacts = ContactsInit(admin_active)
    /\ locations = LocationsInit(MaxFrequencyDays, None)
    /\ reminders = << >>
    /\ records = << >>
    /\ sent = {}
    /\ last = NoResponse
    /\ gen = [g \in 1..2 |-> Idle]
    /\ photo = Idle
    /\ esc = Idle
    /\ tasks = {}
    /\ asked = << >>
    /\ disp = Idle
    /\ val = Idle

\* the clock advances
Tick ==
    /\ now < MaxTime
    /\ now' = now + 1
    /\ UNCHANGED <<bot, contacts, locations, reminders, records, sent, gen, photo, esc, tasks, asked, disp, val>>

\* one run of generate_daily_reminders
Generate ==
    /\ \E first \in FirstContacts :
           /\ Len(reminders) + Len(GenerateDue(reminders, first)) <= MaxReminders
           /\ reminders' = reminders \o GenerateDue(reminders, first)
    /\ UNCHANGED <<now, contacts, locations, records, sent, gen, photo, esc, tasks, asked, disp, val>>

\* start_scheduler: sets the bot, starts the jobs, generates today's reminders
start_scheduler ==
    /\ ~bot
    /\ bot' = TRUE
    /\ Generate

\* the cron job of 00:01
generate_daily_reminders ==
    /\ bot
    /\ Generate
    /\ UNCHANGED bot

\* the job of every minute
send_pending_reminders ==
    /\ IF ~bot
       THEN UNCHANGED <<reminders, sent, asked>>
       ELSE \E ok \in SUBSET DispatchDue(reminders) :
               LET changed == [i \in DOMAIN reminders |->
                                  IF i \in DispatchDue(reminders)
                                  THEN send_reminder(reminders[i], i, i \in ok)
                                  ELSE reminders[i]]
               IN  /\ reminders' = changed
                   /\ sent' = sent \cup Notified("reminder", reminders, changed, SENT)
                   /\ asked' = [i \in DOMAIN asked \cup Attempted(reminders) |->
                                   Asked(i) + IF i \in Attempted(reminders) THEN 1 ELSE 0]
    /\ UNCHANGED <<now, bot, contacts, locations, records, gen, photo, esc, tasks, disp, val>>

\* the job of every 30 minutes
check_escalations ==
    /\ IF ~bot
       THEN UNCHANGED <<reminders, sent>>
       ELSE \E ok \in SUBSET EscalationDue(reminders) :
               LET changed == [i \in DOMAIN reminders |->
                                  IF i \in EscalationDue(reminders)
                                  THEN escalate_reminder(reminders[i], i \in ok)
                                  ELSE reminders[i]]
               IN  /\ reminders' = changed
                   /\ sent' = sent \cup
                        {n \in Notified("escalation", reminders, changed, ESCALATED) :
                            n.contact_id # None}
    /\ UNCHANGED <<now, bot, contacts, locations, records, gen, photo, esc, tasks, asked, disp, val>>

\* a photo arrives from the Telegram user linked to contact c (or to nobody)
handle_photo(c, photo_location) ==
    /\ IF contacts[c].telegram_id = None \/ HandlePhotoRaises(photo_location)
       THEN UNCHANGED <<reminders, records, tasks>>
       ELSE \E pending \in PendingReminder(reminders, c) :
               /\ Len(records) < MaxRecords
               /\ records' = Append(records,
                                    PhotoRecord(reminders, c, pending, photo_location))
               /\ tasks' = tasks \cup {Len(records) + 1}
               /\ reminders' =
                     IF pending = None
                     THEN reminders
                     ELSE [reminders EXCEPT
                              ![pending] = Completed(@, Len(records) + 1)]
    /\ UNCHANGED <<now, bot, contacts, locations, sent, gen, photo, esc, asked, disp, val>>

\* DELETE /reminders/{reminder_id}
cancel_reminder(reminder_id) ==
    /\ reminders' =
          IF CancelStatusCode(reminders, reminder_id) = 204
          THEN [reminders EXCEPT ![reminder_id].status = CANCELLED]
          ELSE reminders
    /\ UNCHANGED <<now, bot, contacts, locations, records, sent, gen, photo, esc, tasks, asked, disp, val>>

\* the operation that ran and the status code it returned; nth is 2 for a run of
\* GenerateDue that directly follows another one
Responds(op, id, status_code) ==
    last' = [op |-> op, id |-> id, status_code |-> status_code,
             nth |-> IF op = "generate" /\ last.op = "generate" THEN 2 ELSE 1]

\* context.user_data.get('photo_location'): absent, or a coordinate kept in the
\* conversation
PhotoLocations == {None, 1}

Next ==
    \/ Tick /\ UNCHANGED last
    \/ start_scheduler /\ UNCHANGED last
    \/ generate_daily_reminders /\ UNCHANGED last
    \/ send_pending_reminders /\ UNCHANGED last
    \/ check_escalations /\ UNCHANGED last
    \/ \E c \in ContactIds, photo_location \in PhotoLocations :
          handle_photo(c, photo_location) /\ UNCHANGED last
    \/ \E reminder_id \in 1..MaxReminders + 1 :
          cancel_reminder(reminder_id) /\ UNCHANGED last

Spec == Init /\ [][Next]_vars

\* the operations with the jobs of the scheduler running again and again: the
\* interval triggers of send_pending_reminders and check_escalations fire as
\* long as the process runs
LiveSpec ==
    /\ Init
    /\ [][Next]_vars
    /\ WF_vars(send_pending_reminders /\ UNCHANGED last)
    /\ WF_vars(check_escalations /\ UNCHANGED last)

\* a LIMIT that returns no row
BatchEmpty(rs) == {{}}

\* the results SELECT ... LIMIT can return: any BatchLimit of the due PENDING
\* reminders, all of them when there are no more than that (no ORDER BY)
Batch(rs) ==
    {b \in SUBSET DispatchDue(rs) :
        Cardinality(b) = IF Cardinality(DispatchDue(rs)) <= BatchLimit
                         THEN Cardinality(DispatchDue(rs))
                         ELSE BatchLimit}

\* the job of every minute, its query limited to BatchLimit rows
send_pending_reminders_limit ==
    /\ IF ~bot
       THEN UNCHANGED <<reminders, sent, asked>>
       ELSE \E batch \in Batch(reminders) : \E ok \in SUBSET batch :
               LET changed == [i \in DOMAIN reminders |->
                                  IF i \in batch
                                  THEN send_reminder(reminders[i], i, i \in ok)
                                  ELSE reminders[i]]
                   attempted == Attempted(reminders) \cap batch
               IN  /\ reminders' = changed
                   /\ sent' = sent \cup Notified("reminder", reminders, changed, SENT)
                   /\ asked' = [i \in DOMAIN asked \cup attempted |->
                                   Asked(i) + IF i \in attempted THEN 1 ELSE 0]
    /\ UNCHANGED <<now, bot, contacts, locations, records, gen, photo, esc, tasks, disp, val>>

\* the operations with the limited dispatch job, which the interval trigger
\* fires again and again
DispatchNext ==
    \/ Tick /\ UNCHANGED last
    \/ start_scheduler /\ UNCHANGED last
    \/ generate_daily_reminders /\ UNCHANGED last
    \/ send_pending_reminders_limit /\ UNCHANGED last
    \/ check_escalations /\ UNCHANGED last
    \/ \E c \in ContactIds, photo_location \in PhotoLocations :
          handle_photo(c, photo_location) /\ UNCHANGED last

DispatchSpec ==
    /\ Init
    /\ [][DispatchNext]_vars
    /\ WF_vars(send_pending_reminders_limit /\ UNCHANGED last)

\* the same operations, with the run of GenerateDue or the response of the API
\* call kept in `last`
NextApi ==
    \/ Tick /\ last' = NoResponse
    \/ start_scheduler /\ Responds("generate", None, None)
    \/ generate_daily_reminders /\ Responds("generate", None, None)
    \/ send_pending_reminders /\ last' = NoResponse
    \/ check_escalations /\ last' = NoResponse
    \/ \E c \in ContactIds, photo_location \in PhotoLocations :
          handle_photo(c, photo_location) /\ last' = NoResponse
    \/ \E reminder_id \in 1..MaxReminders + 1 :
          /\ cancel_reminder(reminder_id)
          /\ Responds("cancel", reminder_id, CancelStatusCode(reminders, reminder_id))

ApiSpec == Init /\ [][NextApi]_vars

\* the scheduler's jobs and the photos of the contacts, with the contact whose
\* photo was handled last kept in `last`
SubmitNext ==
    \/ Tick /\ last' = NoResponse
    \/ start_scheduler /\ last' = NoResponse
    \/ generate_daily_reminders /\ last' = NoResponse
    \/ send_pending_reminders /\ last' = NoResponse
    \/ check_escalations /\ last' = NoResponse
    \/ \E c \in ContactIds, photo_location \in PhotoLocations :
          handle_photo(c, photo_location) /\ Responds("photo", c, None)

SubmitSpec == Init /\ [][SubmitNext]_vars

-----------------------------------------------------------------------------
(* The compliance status of a location *)

\* (now - location.last_compliance_at).days, None for a location that never
\* reported
DaysSince(loc) ==
    IF loc.last_compliance_at # None
    THEN (now - loc.last_compliance_at) \div TicksPerDay
    ELSE None

\* the classification with strict comparisons
ComplianceStatusStrict(loc) ==
    IF DaysSince(loc) = None THEN "critical"
    ELSE IF DaysSince(loc) < loc.frequency_days THEN "ok"
    ELSE IF 2 * DaysSince(loc) < 3 * loc.frequency_days THEN "pending"
    ELSE IF DaysSince(loc) < loc.frequency_days * 2 THEN "overdue"
    ELSE "critical"

\* the status both endpoints derive; days_since <= frequency_days * 1.5 is
\* compared on the doubled numbers
ComplianceStatus(loc) ==
    IF DaysSince(loc) = None THEN "critical"
    ELSE IF DaysSince(loc) <= loc.frequency_days THEN "ok"
    ELSE IF 2 * DaysSince(loc) <= 3 * loc.frequency_days THEN "pending"
    ELSE IF DaysSince(loc) <= loc.frequency_days * 2 THEN "overdue"
    ELSE "critical"

\* the entry of a location in the response of a status endpoint
StatusResponse(op, location_id) ==
    [op |-> op, id |-> location_id, status_code |-> 200, nth |-> 1,
     days_since_compliance |-> DaysSince(locations[location_id]),
     status |-> ComplianceStatus(locations[location_id])]

StatusInit ==
    /\ now \in 0..MaxStatusTime
    /\ bot = FALSE
    /\ contacts = ContactsInit(TRUE)
    /\ \E frequency_days \in 1..MaxStatusFrequency,
           last_compliance_at \in {None} \cup 0..now :
           locations = LocationsInit(frequency_days, last_compliance_at)
    /\ reminders = << >>
    /\ records = << >>
    /\ sent = {}
    /\ last = NoResponse
    /\ gen = [g \in 1..2 |-> Idle]
    /\ photo = Idle
    /\ esc = Idle
    /\ tasks = {}
    /\ asked = << >>
    /\ disp = Idle
    /\ val = Idle

\* GET /dashboard/locations-status
get_locations_compliance_status ==
    /\ \E l \in LocationIds :
           /\ locations[l].active
           /\ last' = StatusResponse("locations-status", l)
    /\ UNCHANGED <<now, bot, contacts, locations, reminders, records, sent, gen, photo, esc, tasks, asked, disp, val>>

\* GET /reports/by-location
get_compliance_by_location ==
    /\ \E l \in LocationIds :
           /\ locations[l].active
           /\ last' = StatusResponse("by-location", l)
    /\ UNCHANGED <<now, bot, contacts, locations, reminders, records, sent, gen, photo, esc, tasks, asked, disp, val>>

StatusNext ==
    \/ get_locations_compliance_status
    \/ get_compliance_by_location

StatusSpec == StatusInit /\ [][StatusNext]_vars

-----------------------------------------------------------------------------
(* GenerateDue over a Directory of two clients, with manual reminders *)

\* client 1 has contacts 1 and 2, client 2 has contact 3; contact 1 can be
\* inactive and contact 2 not linked
GenContacts(active1, linked2) ==
    [c \in 1..3 |->
        [client_id |-> IF c = 3 THEN 2 ELSE 1,
         role |-> CASE c = 1 -> OPERADOR [] c = 2 -> SUPERVISOR [] OTHER -> ADMIN,
         active |-> IF c = 1 THEN active1 ELSE TRUE,
         telegram_id |-> IF c = 2 /\ ~linked2 THEN None ELSE c]]

\* location 1 of client 1 with the given configuration, and location 2 of
\* client 2 with the column defaults
GenLocations(active, product_id, frequency_days, reminder_days, last_compliance_at) ==
    [l \in 1..2 |->
        IF l = 1
        THEN [LocationsInit(frequency_days, last_compliance_at)[1] EXCEPT
                 !.active = active,
                 !.product_id = product_id,
                 !.reminder_days = reminder_days]
        ELSE [LocationsInit(MaxFrequencyDays, None)[1] EXCEPT !.client_id = 2]]

GenInit ==
    /\ now = 0
    /\ bot = FALSE
    /\ \E active1 \in BOOLEAN, linked2 \in BOOLEAN :
           contacts = GenContacts(active1, linked2)
    /\ \E active \in BOOLEAN, product_id \in {None, 1},
           frequency_days \in 1..MaxFrequencyDays,
           reminder_days \in {{1, 2, 3, 4, 5}, {5, 6}},
           last_compliance_at \in {None, 0} :
           locations = GenLocations(active, product_id, frequency_days,
                                    reminder_days, last_compliance_at)
    /\ reminders = << >>
    /\ records = << >>
    /\ sent = {}
    /\ last = NoResponse
    /\ gen = [g \in 1..2 |-> Idle]
    /\ photo = Idle
    /\ esc = Idle
    /\ tasks = {}
    /\ asked = << >>
    /\ disp = Idle
    /\ val = Idle

\* the status code of POST /reminders: 404 for an unknown location or contact,
\* 400 for a contact without telegram_id, else 201
CreateStatusCode(location_id, contact_id) ==
    IF location_id \notin LocationIds \/ contact_id \notin ContactIds
    THEN 404
    ELSE IF contacts[contact_id].telegram_id = None
    THEN 400
    ELSE 201

\* POST /reminders: the row is added as it is given; the background task of
\* send_now imports send_reminder_immediately, which the scheduler does not
\* define, and ends on the ImportError it logs
create_reminder(location_id, contact_id, scheduled_for) ==
    /\ IF CreateStatusCode(location_id, contact_id) = 201
       THEN /\ Len(reminders) < MaxReminders
            /\ reminders' = Append(reminders,
                                   ScheduledReminder(location_id, contact_id, scheduled_for))
       ELSE UNCHANGED reminders
    /\ UNCHANGED <<now, bot, contacts, locations, records, sent, gen, photo, esc, tasks, asked, disp, val>>

GenNext ==
    \/ Tick /\ last' = NoResponse
    \/ start_scheduler /\ Responds("generate", None, None)
    \/ generate_daily_reminders /\ Responds("generate", None, None)
    \/ \E location_id \in {1, 3}, contact_id \in {1, 2} :
          /\ create_reminder(location_id, contact_id, now)
          /\ last' = NoResponse
    \/ \E reminder_id \in 1..MaxReminders :
          cancel_reminder(reminder_id) /\ last' = NoResponse

GenSpec == GenInit /\ [][GenNext]_vars

\* POST /contacts/{contact_id}/unlink-telegram: 404 for an unknown contact, 400
\* for one that is not linked, else the link is removed
unlink_telegram(contact_id) ==
    /\ contacts' =
          IF contact_id \in ContactIds /\ contacts[contact_id].telegram_id # None
          THEN [contacts EXCEPT ![contact_id].telegram_id = None]
          ELSE contacts
    /\ UNCHANGED <<now, bot, locations, reminders, records, sent, last, gen, photo, esc, tasks, asked, disp, val>>

\* the operations while the Directory unlinks contacts, up to MaxRaceTime
DirNext ==
    \/ Next /\ now' <= MaxRaceTime
    \/ \E contact_id \in ContactIds : unlink_telegram(contact_id)

DirSpec == Init /\ [][DirNext]_vars

-----------------------------------------------------------------------------
(* The handlers as they interleave: each reads in one step (its SELECTs) and  *)
(* commits in a later one (its INSERTs and UPDATEs), with the steps of other  *)
(* handlers in between.  gen[1] is the run start_scheduler awaits, gen[2] the *)
(* cron job.                                                                   *)

\* start_scheduler up to the reads of generate_daily_reminders
start_scheduler_read ==
    /\ ~bot
    /\ bot' = TRUE
    /\ gen[1].pc = "idle"
    /\ \E first \in FirstContacts :
           gen' = [gen EXCEPT ![1] = [pc |-> "read",
                                       adds |-> GenerateDue(reminders, first)]]
    /\ UNCHANGED <<now, contacts, locations, reminders, records, sent, last, photo, esc, tasks, asked, disp, val>>

\* the cron job up to the reads of generate_daily_reminders
generate_daily_reminders_read ==
    /\ bot
    /\ gen[2].pc = "idle"
    /\ \E first \in FirstContacts :
           gen' = [gen EXCEPT ![2] = [pc |-> "read",
                                       adds |-> GenerateDue(reminders, first)]]
    /\ UNCHANGED <<now, bot, contacts, locations, reminders, records, sent, last, photo, esc, tasks, asked, disp, val>>

\* db.commit() of generate_daily_reminders
generate_daily_reminders_commit(g) ==
    /\ gen[g].pc = "read"
    /\ Len(reminders) + Len(gen[g].adds) <= MaxReminders
    /\ reminders' = reminders \o gen[g].adds
    /\ gen' = [gen EXCEPT ![g] = Idle]
    /\ UNCHANGED <<now, bot, contacts, locations, records, sent, last, photo, esc, tasks, asked, disp, val>>

\* handle_photo up to db.flush(): the contact and its pending reminder are read
handle_photo_read(c, photo_location) ==
    /\ photo.pc = "idle"
    /\ contacts[c].telegram_id # None
    /\ ~HandlePhotoRaises(photo_location)
    /\ Len(records) < MaxRecords
    /\ \E pending \in PendingReminder(reminders, c) :
           photo' = [pc |-> "read",
                     pending |-> pending,
                     loaded |-> IF pending = None THEN << >> ELSE << reminders[pending] >>,
                     record |-> PhotoRecord(reminders, c, pending, photo_location)]
    /\ UNCHANGED <<now, bot, contacts, locations, reminders, records, sent, last, gen, esc, tasks, asked, disp, val>>

\* handle_photo from the assignments on the pending reminder to db.commit()
handle_photo_commit ==
    /\ photo.pc = "read"
    /\ records' = Append(records, photo.record)
    /\ reminders' =
          IF photo.pending = None
          THEN reminders
          ELSE [reminders EXCEPT
                   ![photo.pending] = Flush(@, photo.loaded[1],
                                            Completed(photo.loaded[1], Len(records) + 1))]
    /\ tasks' = tasks \cup {Len(records) + 1}
    /\ photo' = Idle
    /\ UNCHANGED <<now, bot, contacts, locations, sent, last, gen, esc, asked, disp, val>>

\* check_escalations up to the SELECT of the reminders past the threshold
check_escalations_read ==
    /\ esc.pc = "idle"
    /\ bot
    /\ esc' = [pc |-> "read",
               loaded |-> [i \in EscalationDue(reminders) |-> reminders[i]]]
    /\ UNCHANGED <<now, bot, contacts, locations, reminders, records, sent, last, gen, photo, tasks, asked, disp, val>>

\* check_escalations from the loop over the reminders it read to db.commit()
check_escalations_commit ==
    /\ esc.pc = "read"
    /\ \E ok \in SUBSET DOMAIN esc.loaded :
           LET changed == [i \in DOMAIN esc.loaded |->
                              escalate_reminder(esc.loaded[i], i \in ok)]
           IN  /\ reminders' = [i \in DOMAIN reminders |->
                                   IF i \in DOMAIN esc.loaded
                                   THEN Flush(reminders[i], esc.loaded[i], changed[i])
                                   ELSE reminders[i]]
               /\ sent' = sent \cup
                    {n \in Notified("escalation", esc.loaded, changed, ESCALATED) :
                        n.contact_id # None}
    /\ esc' = Idle
    /\ UNCHANGED <<now, bot, contacts, locations, records, last, gen, photo, tasks, asked, disp, val>>

ConcNext ==
    \/ now < MaxRaceTime /\ Tick /\ UNCHANGED last
    \/ start_scheduler_read
    \/ generate_daily_reminders_read
    \/ \E g \in DOMAIN gen : generate_daily_reminders_commit(g)
    \/ send_pending_reminders /\ UNCHANGED last
    \/ \E c \in ContactIds, photo_location \in PhotoLocations :
          handle_photo_read(c, photo_location)
    \/ handle_photo_commit
    \/ check_escalations_read
    \/ check_escalations_commit

ConcSpec == Init /\ [][ConcNext]_vars

\* send_pending_reminders up to the SELECT of the due PENDING reminders
send_pending_reminders_read ==
    /\ disp.pc = "idle"
    /\ bot
    /\ disp' = [pc |-> "read",
                loaded |-> [i \in DispatchDue(reminders) |-> reminders[i]]]
    /\ UNCHANGED <<now, bot, contacts, locations, reminders, records, sent, last, gen, photo, esc, tasks, asked, val>>

\* send_pending_reminders from the loop over the reminders it read to
\* db.commit(): the rows are written by primary key, whatever their status is now
send_pending_reminders_commit ==
    /\ disp.pc = "read"
    /\ \E ok \in SUBSET DOMAIN disp.loaded :
           LET changed == [i \in DOMAIN disp.loaded |->
                              send_reminder(disp.loaded[i], i, i \in ok)]
           IN  /\ reminders' = [i \in DOMAIN reminders |->
                                   IF i \in DOMAIN disp.loaded
                                   THEN Flush(reminders[i], disp.loaded[i], changed[i])
                                   ELSE reminders[i]]
               /\ sent' = sent \cup Notified("reminder", disp.loaded, changed, SENT)
               /\ asked' = [i \in DOMAIN asked \cup Attempted(disp.loaded) |->
                               Asked(i) + IF i \in Attempted(disp.loaded) THEN 1 ELSE 0]
    /\ disp' = Idle
    /\ UNCHANGED <<now, bot, contacts, locations, records, last, gen, photo, esc, tasks, val>>

\* the dispatch job interleaved with the requests of the API
RaceNext ==
    \/ now < MaxRaceTime /\ Tick /\ last' = NoResponse
    \/ start_scheduler /\ last' = NoResponse
    \/ send_pending_reminders_read
    \/ send_pending_reminders_commit
    \/ \E reminder_id \in 1..MaxReminders :
          /\ cancel_reminder(reminder_id)
          /\ Responds("cancel", reminder_id, CancelStatusCode(reminders, reminder_id))

RaceSpec == Init /\ [][RaceNext]_vars

\* two submissions through the webhook: one handled in two steps, with the
\* whole of another one between its read and its commit
PhotoRaceNext ==
    \/ now < MaxRaceTime /\ Tick /\ UNCHANGED last
    \/ start_scheduler /\ UNCHANGED last
    \/ send_pending_reminders /\ UNCHANGED last
    \/ \E c \in ContactIds, photo_location \in PhotoLocations :
          handle_photo_read(c, photo_location)
    \/ handle_photo_commit
    \/ \E c \in ContactIds, photo_location \in PhotoLocations :
          handle_photo(c, photo_location) /\ UNCHANGED last

PhotoRaceSpec == Init /\ [][PhotoRaceNext]_vars

-----------------------------------------------------------------------------
(* The evidence record: ComplianceRecord methods *)

\* Factor 1 giving the partial points to a record without a coordinate
LocationFactorPartial(r) ==
    IF r.distance_from_expected # None
    THEN IF r.distance_from_expected <= 100 THEN <<40, Bool(TRUE)>>
         ELSE IF r.distance_from_expected <= 300 THEN <<30, Bool(TRUE)>>
         ELSE IF r.distance_from_expected <= 500 THEN <<20, Bool(TRUE)>>
         ELSE <<0, Bool(FALSE)>>
    ELSE <<15, None>>

\* Factor 1 of calculate_authenticity_score: <<points, location_verified>>
LocationFactor(r) ==
    IF Truthy(r.photo_latitude) /\ Truthy(r.photo_longitude)
    THEN IF r.distance_from_expected # None
         THEN IF r.distance_from_expected <= 100 THEN <<40, Bool(TRUE)>>
              ELSE IF r.distance_from_expected <= 300 THEN <<30, Bool(TRUE)>>
              ELSE IF r.distance_from_expected <= 500 THEN <<20, Bool(TRUE)>>
              ELSE <<0, Bool(FALSE)>>
         ELSE <<15, None>>
    ELSE <<0, Bool(FALSE)>>

\* abs()
Abs(x) == IF x < 0 THEN 0 - x ELSE x

\* Factor 2 of calculate_authenticity_score: <<points, time_verified>>
TimeFactor(r) ==
    IF r.time_diff_minutes # None
    THEN IF Abs(r.time_diff_minutes) <= 30 THEN <<30, Bool(TRUE)>>
         ELSE IF Abs(r.time_diff_minutes) <= 120 THEN <<20, Bool(TRUE)>>
         ELSE IF Abs(r.time_diff_minutes) <= 240 THEN <<10, Bool(TRUE)>>
         ELSE <<0, Bool(FALSE)>>
    ELSE <<15, None>>

\* Factor 3 of calculate_authenticity_score, on ai_confidence in hundredths
ConfidenceFactor(r) ==
    IF r.ai_confidence # None
    THEN IF r.ai_confidence >= 80 THEN 30
         ELSE IF r.ai_confidence >= 60 THEN 20
         ELSE IF r.ai_confidence >= 40 THEN 10
         ELSE 0
    ELSE 0

\* the penalty for a detected screenshot
ScreenshotPenalty(r) == IF Truthy(r.ai_appears_screenshot) THEN 50 ELSE 0

Max(a, b) == IF a >= b THEN a ELSE b
Min(a, b) == IF a <= b THEN a ELSE b

\* the scorer without its final clamp
calculate_authenticity_score_unclamped(r) ==
    [r EXCEPT !.location_verified = LocationFactor(r)[2],
              !.time_verified = TimeFactor(r)[2],
              !.authenticity_score =
                  LocationFactor(r)[1] + TimeFactor(r)[1]
                  + ConfidenceFactor(r) - ScreenshotPenalty(r)]

calculate_authenticity_score(r) ==
    [r EXCEPT !.location_verified = LocationFactor(r)[2],
              !.time_verified = TimeFactor(r)[2],
              !.authenticity_score =
                  Max(0, Min(100, LocationFactor(r)[1] + TimeFactor(r)[1]
                                  + ConfidenceFactor(r) - ScreenshotPenalty(r)))]

\* dict.get(key, default)
Get(d, key, default) == IF key \in DOMAIN d THEN d[key] ELSE default

\* the issues list of a PhotoValidation: empty, the problems the classifier
\* saw in the photo, or the one message of a failed oracle call
NoIssues == 0
PhotoIssues == 1
OracleError == 2

\* the fields of PhotoValidation that set_ai_validation reads from model_dump();
\* the model has no appears_screenshot field
PhotoValidation(is_valid, confidence, product_detected, drainage_area_visible, issues) ==
    [is_valid |-> Bool(is_valid),
     confidence |-> confidence,
     product_detected |-> Bool(product_detected),
     drainage_area_visible |-> Bool(drainage_area_visible),
     issues |-> issues]

\* a failure result that carries a high confidence
OracleFailedConfident == PhotoValidation(FALSE, 80, FALSE, FALSE, OracleError)

\* what validate_compliance_photo returns when the API key is missing or the
\* call raises (connection, rate limit, API status, unparsable response, any
\* other exception)
OracleFailed == PhotoValidation(FALSE, 0, FALSE, FALSE, OracleError)

\* a verdict rule that rejects what it does not approve
AutoVerdictRejects(r) ==
    IF /\ Truthy(r.authenticity_score)
       /\ r.authenticity_score >= 80
       /\ ~Truthy(r.ai_appears_screenshot)
    THEN [r EXCEPT !.is_valid = Bool(TRUE)]
    ELSE [r EXCEPT !.is_valid = Bool(FALSE)]

\* the verdict set_ai_validation leaves on the scored record
AutoVerdict(r) ==
    IF /\ Truthy(r.authenticity_score)
       /\ r.authenticity_score >= 80
       /\ ~Truthy(r.ai_appears_screenshot)
    THEN [r EXCEPT !.is_valid = Bool(TRUE)]
    ELSE r

set_ai_validation(r, validation_result) ==
    AutoVerdict(calculate_authenticity_score(
        [r EXCEPT !.ai_validated = Get(validation_result, "is_valid", Bool(FALSE)),
                  !.ai_confidence = Get(validation_result, "confidence", 0),
                  !.ai_product_detected =
                      Get(validation_result, "product_detected", None),
                  !.ai_drainage_visible =
                      Get(validation_result, "drainage_area_visible", None),
                  !.ai_appears_screenshot =
                      Get(validation_result, "appears_screenshot", Bool(FALSE)),
                  !.ai_issues = Get(validation_result, "issues", NoIssues)]))

set_manual_validation(r, is_valid, validated_by_id) ==
    [r EXCEPT !.manual_validated = Bool(is_valid),
              !.validated_by = validated_by_id,
              !.is_valid = Bool(is_valid)]

-----------------------------------------------------------------------------
(* The scorer and the automatic verdict as functions of their inputs *)

\* a coordinate component 0 stands for 0.0, 1 for any other number
ScorerCoordinates == {<<None, None>>, <<0, 0>>, <<0, 1>>, <<1, 0>>, <<1, 1>>}
ScorerDistances == {None, 50, 100, 101, 300, 301, 500, 501}
ScorerTimeDiffs == {None, 10, 30, 0 - 31, 120, 0 - 121, 240, 241}
ScorerConfidences == {0, 39, 40, 59, 60, 79, 80, 85, 90, 100}

\* the rows the scorer can be given: handle_photo computes a distance only for
\* a reminder and a coordinate whose components are both true
ScorerRows ==
    {ComplianceRecord(IF time_diff = None THEN None ELSE 1, 1,
                      IF time_diff = None THEN None ELSE 1,
                      coordinate[1], coordinate[2], distance, time_diff) :
        coordinate \in ScorerCoordinates, distance \in ScorerDistances,
        time_diff \in ScorerTimeDiffs}

\* the dicts set_ai_validation can be given, with and without an
\* appears_screenshot key
ScorerResults ==
    {[is_valid |-> Bool(is_valid), confidence |-> confidence] :
        is_valid \in BOOLEAN, confidence \in ScorerConfidences}
    \cup {[is_valid |-> Bool(is_valid), confidence |-> confidence,
           appears_screenshot |-> Bool(appears_screenshot)] :
        is_valid \in BOOLEAN, confidence \in ScorerConfidences,
        appears_screenshot \in BOOLEAN}

ScorerInit ==
    /\ now = 0
    /\ bot = TRUE
    /\ contacts = ContactsInit(TRUE)
    /\ locations = LocationsInit(MaxFrequencyDays, None)
    /\ reminders = << >>
    /\ \E row \in ScorerRows, manual \in {None, 0, 1} :
           /\ row.distance_from_expected # None =>
                  /\ row.time_diff_minutes # None
                  /\ Truthy(row.photo_latitude) /\ Truthy(row.photo_longitude)
           /\ records = << [row EXCEPT !.manual_validated = manual,
                                       !.validated_by =
                                           IF manual = None THEN None ELSE 2,
                                       !.is_valid = manual] >>
    /\ sent = {}
    /\ last = NoResponse
    /\ gen = [g \in 1..2 |-> Idle]
    /\ photo = Idle
    /\ esc = Idle
    /\ tasks = {}
    /\ asked = << >>
    /\ disp = Idle
    /\ val = Idle

\* calculate_authenticity_score applied to the record
ScoreRecord ==
    /\ records' = [records EXCEPT ![1] = calculate_authenticity_score(@)]
    /\ UNCHANGED <<now, bot, contacts, locations, reminders, sent, gen, photo, esc, tasks, asked, disp, val>>

\* set_ai_validation applied to the record
ApplyAIVerdict(validation_result) ==
    /\ records' = [records EXCEPT ![1] = set_ai_validation(@, validation_result)]
    /\ UNCHANGED <<now, bot, contacts, locations, reminders, sent, gen, photo, esc, tasks, asked, disp, val>>

\* `last` keeps which of the two was applied
ScorerNext ==
    \/ ScoreRecord /\ Responds("score", 1, None)
    \/ \E validation_result \in ScorerResults :
          ApplyAIVerdict(validation_result) /\ Responds("verdict", 1, None)

ScorerSpec == ScorerInit /\ [][ScorerNext]_vars

\* the geolocation block of handle_photo on a photo that answers a reminder:
\* the conversation's coordinate is copied to the record; the distance is
\* computed when the location's latitude and longitude and the record's are all
\* true; haversine is the value of haversine_distance for the two coordinates
GeoRecord(photo_location, expected, haversine, time_diff) ==
    ComplianceRecord(1, 1, 1, photo_location[1], photo_location[2],
                     IF /\ Truthy(expected[1]) /\ Truthy(expected[2])
                        /\ Truthy(photo_location[1]) /\ Truthy(photo_location[2])
                     THEN haversine
                     ELSE None,
                     time_diff)

\* a photo in the handler: the coordinate kept in the conversation, the
\* coordinate of the reminder's location, their distance and the time since
\* the reminder
GeoInit ==
    /\ now = 0
    /\ bot = TRUE
    /\ contacts = ContactsInit(TRUE)
    /\ locations = LocationsInit(MaxFrequencyDays, None)
    /\ reminders = << >>
    /\ records = << >>
    /\ sent = {}
    /\ last = NoResponse
    /\ gen = [g \in 1..2 |-> Idle]
    /\ \E photo_location \in ScorerCoordinates \ {<<None, None>>},
          expected \in ScorerCoordinates,
          haversine \in ScorerDistances \ {None},
          time_diff \in {10, 241} :
           photo = [pc |-> "geo", photo_location |-> photo_location,
                    expected |-> expected, haversine |-> haversine,
                    time_diff |-> time_diff]
    /\ esc = Idle
    /\ tasks = {}
    /\ asked = << >>
    /\ disp = Idle
    /\ val = Idle

\* handle_photo from the geolocation block to db.commit()
handle_photo_geo ==
    /\ photo.pc = "geo"
    /\ records' = << GeoRecord(photo.photo_location, photo.expected,
                               photo.haversine, photo.time_diff) >>
    /\ photo' = [photo EXCEPT !.pc = "done"]
    /\ UNCHANGED <<now, bot, contacts, locations, reminders, sent, last, gen, esc, tasks, asked, disp, val>>

GeoNext ==
    \/ handle_photo_geo
    \/ records # << >> /\ ScoreRecord /\ Responds("score", 1, None)

GeoSpec == GeoInit /\ [][GeoNext]_vars

-----------------------------------------------------------------------------
(* The life of one evidence record *)

Distances == {50, 300, 501}
TimeDiffs == {10, 0 - 31, 241}
Confidences == {0, 59, 60, 85}

\* the records handle_photo can have committed: a distance needs a captured
\* coordinate and a reminder, a time difference needs a reminder
EvidenceRows ==
    {ComplianceRecord(IF reminder_id = None THEN None ELSE 1, 1, reminder_id,
                      coordinate, coordinate, distance, time_diff) :
        reminder_id \in {None, 1}, coordinate \in PhotoLocations \ {None},
        distance \in Distances \cup {None}, time_diff \in TimeDiffs \cup {None}}

EvInit ==
    /\ now = 0
    /\ bot = TRUE
    /\ contacts = ContactsInit(TRUE)
    /\ locations = LocationsInit(MaxFrequencyDays, None)
    /\ reminders = << >>
    /\ \/ /\ records = << >>
          /\ tasks = {}
       \/ /\ \E row \in EvidenceRows :
                /\ (row.time_diff_minutes # None) <=> (row.reminder_id # None)
                /\ row.distance_from_expected # None =>
                       row.reminder_id # None /\ Truthy(row.photo_latitude)
                /\ records = << row >>
          /\ tasks = {1}
    /\ sent = {}
    /\ last = NoResponse
    /\ gen = [g \in 1..2 |-> Idle]
    /\ photo = Idle
    /\ esc = Idle
    /\ asked = << >>
    /\ disp = Idle
    /\ val = Idle

\* the classifications a parsed oracle response can carry
Classifications ==
    {PhotoValidation(is_valid, confidence, product_detected, drainage_area_visible, issues) :
        is_valid \in BOOLEAN, confidence \in Confidences,
        product_detected \in BOOLEAN, drainage_area_visible \in BOOLEAN,
        issues \in {NoIssues, PhotoIssues}}

\* what validate_compliance_photo can return
OracleResults == Classifications \cup {OracleFailed}

\* the task handle_photo created for record compliance_id runs: when the photo
\* cannot be downloaded the exception is logged and nothing is written, else
\* the oracle's result, failure result included, is written back and committed
validate_photo_async(compliance_id, downloaded, validation_result) ==
    /\ compliance_id \in tasks
    /\ tasks' = tasks \ {compliance_id}
    /\ records' =
          IF downloaded /\ compliance_id \in RecordIds
          THEN [records EXCEPT
                   ![compliance_id] = set_ai_validation(@, validation_result)]
          ELSE records
    /\ UNCHANGED <<now, bot, contacts, locations, reminders, sent, last, gen, photo, esc, asked, disp, val>>

\* POST /records/{record_id}/validate
manual_validate_record(record_id, is_valid, validated_by_id) ==
    /\ records' =
          IF record_id \in RecordIds /\ validated_by_id \in ContactIds
          THEN [records EXCEPT
                   ![record_id] = set_manual_validation(@, is_valid, validated_by_id)]
          ELSE records
    /\ UNCHANGED <<now, bot, contacts, locations, reminders, sent, last, gen, photo, esc, tasks, asked, disp, val>>

EvNext ==
    \/ \E c \in ContactIds, photo_location \in PhotoLocations :
          handle_photo(c, photo_location) /\ Responds("photo", c, None)
    \/ \E downloaded \in BOOLEAN, validation_result \in OracleResults :
          validate_photo_async(1, downloaded, validation_result)
    \/ \E is_valid \in BOOLEAN, validated_by_id \in {2, 3} :
          manual_validate_record(1, is_valid, validated_by_id)

EvSpec == EvInit /\ [][EvNext]_vars

\* validate_photo_async up to the call of the oracle: the photo is downloaded
\* and the record is read into the task's session; a failed download ends the
\* task
validate_photo_async_read(compliance_id, downloaded) ==
    /\ val.pc = "idle"
    /\ compliance_id \in tasks
    /\ tasks' = tasks \ {compliance_id}
    /\ val' = IF downloaded /\ compliance_id \in RecordIds
              THEN [pc |-> "read", id |-> compliance_id, loaded |-> records[compliance_id]]
              ELSE Idle
    /\ UNCHANGED <<now, bot, contacts, locations, reminders, records, sent, last, gen, photo, esc, asked, disp>>

\* validate_photo_async from the oracle's answer to db.commit(): the result is
\* set on the record as the task read it, and the columns this changed are
\* written
validate_photo_async_commit(validation_result) ==
    /\ val.pc = "read"
    /\ records' = [records EXCEPT
                      ![val.id] = Flush(@, val.loaded,
                                        set_ai_validation(val.loaded, validation_result))]
    /\ val' = Idle
    /\ UNCHANGED <<now, bot, contacts, locations, reminders, sent, last, gen, photo, esc, tasks, asked, disp>>

\* the validation task interleaved with the requests of the API
OverrideNext ==
    \/ \E c \in ContactIds, photo_location \in PhotoLocations :
          handle_photo(c, photo_location) /\ Responds("photo", c, None)
    \/ \E downloaded \in BOOLEAN : validate_photo_async_read(1, downloaded)
    \/ \E validation_result \in OracleResults :
          validate_photo_async_commit(validation_result)
    \/ \E is_valid \in BOOLEAN, validated_by_id \in {2, 3} :
          manual_validate_record(1, is_valid, validated_by_id)

OverrideSpec == EvInit /\ [][OverrideNext]_vars

\* the JSON objects the oracle can answer with: the keys the prompt asks for,
\* with or without an appears_screenshot key of its own
OracleAnswers ==
    Classifications
    \cup {[is_valid |-> c.is_valid, confidence |-> c.confidence,
           product_detected |-> c.product_detected,
           drainage_area_visible |-> c.drainage_area_visible,
           issues |-> c.issues,
           appears_screenshot |-> Bool(appears_screenshot)] :
             c \in Classifications, appears_screenshot \in BOOLEAN}

\* PhotoValidation(**result).model_dump(): the declared fields of the model,
\* any other key of the answer is ignored
model_dump(result) ==
    PhotoValidation(result.is_valid = Bool(TRUE), result.confidence,
                    result.product_detected = Bool(TRUE),
                    result.drainage_area_visible = Bool(TRUE), result.issues)

\* the validation task with the answer of the oracle as it arrives
OracleNext ==
    \/ \E c \in ContactIds, photo_location \in PhotoLocations :
          handle_photo(c, photo_location) /\ Responds("photo", c, None)
    \/ \E downloaded \in BOOLEAN, result \in OracleAnswers :
          validate_photo_async(1, downloaded, model_dump(result))

OracleSpec == EvInit /\ [][OracleNext]_vars

-----------------------------------------------------------------------------
(* Properties *)

\* the reminders of location l scheduled on calendar day `day`, cancelled ones
\* left out
RemindersOn(l, day) ==
    {i \in ReminderIds : /\ reminders[i].location_id = l
                         /\ DateOf(reminders[i].scheduled_for) = day
                         /\ reminders[i].status # CANCELLED}

\* C1: when a Complete and an Escalate of one SENT reminder interleave, exactly
\* one takes effect: a COMPLETED row has escalation_count, escalated_at and
\* escalated_to untouched, an ESCALATED row has responded_at and the linked
\* evidence untouched, and a reminder with committed evidence is not left SENT
CompleteXorEscalate ==
    /\ \A i \in ReminderIds :
          /\ reminders[i].status = COMPLETED =>
                /\ reminders[i].escalation_count = 0
                /\ reminders[i].escalated_at = None
                /\ reminders[i].escalated_to = None
          /\ reminders[i].status = ESCALATED =>
                /\ reminders[i].responded_at = None
                /\ reminders[i].compliance_record_id = None
    /\ \A k \in RecordIds :
          records[k].reminder_id # None =>
              reminders[records[k].reminder_id].status \in {COMPLETED, ESCALATED}

\* C2: a run of GenerateDue that directly follows another run on the same day
\* creates no reminder, and leaves every due location with exactly one reminder
\* for the day
GenerateDueIdempotent ==
    [][(last.op = "generate" /\ last'.op = "generate") =>
          /\ reminders' = reminders
          /\ \A l \in LocationIds :
                (/\ locations[l].active
                 /\ CadenceDue(locations[l], DateOf(now))
                 /\ WeekdayDue(locations[l], DateOf(now))
                 /\ LinkedContacts(locations[l].client_id) # {})
                => \E i \in DOMAIN reminders' :
                      /\ reminders'[i].location_id = l
                      /\ DateOf(reminders'[i].scheduled_for) = DateOf(now)
                      /\ reminders'[i].status # CANCELLED
                      /\ \A j \in DOMAIN reminders' :
                            (/\ reminders'[j].location_id = l
                             /\ DateOf(reminders'[j].scheduled_for) = DateOf(now)
                             /\ reminders'[j].status # CANCELLED) => j = i]_vars

\* C2 witness: a second run in a row has ended and today's reminder is PENDING
GeneratedTwice ==
    /\ last.op = "generate"
    /\ last.nth = 2
    /\ \E i \in ReminderIds : /\ reminders[i].status = PENDING
                              /\ DateOf(reminders[i].scheduled_for) = DateOf(now)

\* C3: however the reads and commits of two runs of GenerateDue interleave, a
\* location never has two non-cancelled reminders on the same calendar day
OneReminderPerDay ==
    \A l \in LocationIds : \A day \in 0..MaxDay :
        Cardinality(RemindersOn(l, day)) <= 1

\* C4: once a manual override v is applied, the verdict of the record stays v,
\* whatever a later AI verdict computes
ManualOverrideWins ==
    \A k \in RecordIds :
        records[k].manual_validated # None =>
            records[k].is_valid = records[k].manual_validated

\* C5: a COMPLETED reminder with linked evidence has its location's
\* last_compliance_at set to the capture time of that evidence
CompleteAdvancesAnchor ==
    \A i \in ReminderIds :
        (reminders[i].status = COMPLETED /\ reminders[i].compliance_record_id # None)
        => locations[reminders[i].location_id].last_compliance_at =
               records[reminders[i].compliance_record_id].photo_received_at

\* C6: after a reminder of location L is completed by evidence captured on day
\* D, no reminder of L is generated for a later day D' with
\* D' - D < frequency_days
CadenceRespected ==
    \A i \in ReminderIds : \A j \in ReminderIds :
        (/\ reminders[i].status = COMPLETED
         /\ reminders[i].compliance_record_id # None
         /\ reminders[j].location_id = reminders[i].location_id
         /\ DateOf(reminders[j].scheduled_for) >
                DateOf(records[reminders[i].compliance_record_id].photo_received_at))
        => DateOf(reminders[j].scheduled_for)
               - DateOf(records[reminders[i].compliance_record_id].photo_received_at)
           >= locations[reminders[i].location_id].frequency_days

\* C7: a sweep at time now does not escalate a SENT reminder whose sent_at is
\* exactly now minus the threshold
ThresholdNotEscalated ==
    [][\A i \in ReminderIds :
          (/\ reminders[i].status = SENT
           /\ reminders[i].sent_at = now - EscalationTicks)
          => reminders'[i].status # ESCALATED]_vars

\* the status changes of the reminder lifecycle
LegalTransitions ==
    {<<PENDING, SENT>>, <<PENDING, FAILED>>, <<PENDING, CANCELLED>>,
     <<SENT, COMPLETED>>, <<SENT, ESCALATED>>}

\* C8: no operation removes a reminder or changes its status other than by
\* PENDING->SENT, PENDING->FAILED, PENDING->CANCELLED, SENT->COMPLETED or
\* SENT->ESCALATED; so COMPLETED, FAILED and CANCELLED are never left
StatusTransitions ==
    [][\A i \in ReminderIds :
          /\ i \in DOMAIN reminders'
          /\ reminders'[i].status # reminders[i].status =>
                <<reminders[i].status, reminders'[i].status>> \in LegalTransitions]_vars

\* C8 witness: a COMPLETED reminder next to a FAILED or CANCELLED one of a later
\* day
TerminalStatuses ==
    \E i \in ReminderIds : \E j \in ReminderIds :
        /\ reminders[i].status = COMPLETED
        /\ reminders[j].status \in {FAILED, CANCELLED}
        /\ reminders[j].scheduled_for > reminders[i].responded_at

\* C9: CancelReminder answers 204 and sets CANCELLED on a PENDING reminder,
\* answers 400 and changes nothing on a reminder in another status, answers
\* 404 and changes nothing on an unknown id
CancelOnlyPending ==
    [][last'.op = "cancel" =>
          IF last'.id \notin ReminderIds
          THEN last'.status_code = 404 /\ reminders' = reminders
          ELSE IF reminders[last'.id].status = PENDING
          THEN /\ last'.status_code = 204
               /\ reminders' = [reminders EXCEPT ![last'.id].status = CANCELLED]
          ELSE last'.status_code = 400 /\ reminders' = reminders]_vars

\* C9 witness: a cancel was just refused with 400 while a cancelled reminder
\* exists
CancelRefused ==
    /\ last.op = "cancel"
    /\ last.status_code = 400
    /\ \E i \in ReminderIds : reminders[i].status = CANCELLED

\* C10: a Dispatch tick leaves every reminder that is not PENDING with
\* scheduled_for <= now unchanged, and a reminder it turns SENT has sent_at = now
\* and the message id recorded, nothing else changed
DispatchFrame ==
    [][send_pending_reminders =>
          \A i \in ReminderIds :
              /\ i \in DOMAIN reminders'
              /\ ~(reminders[i].status = PENDING /\ reminders[i].scheduled_for <= now)
                    => reminders'[i] = reminders[i]
              /\ reminders'[i] # reminders[i] =>
                    \/ /\ reminders'[i].telegram_message_id # None
                       /\ reminders'[i] =
                             [reminders[i] EXCEPT
                                 !.status = SENT,
                                 !.sent_at = now,
                                 !.telegram_message_id =
                                     reminders'[i].telegram_message_id]
                    \/ /\ reminders'[i].failure_reason # ""
                       /\ reminders'[i] =
                             [reminders[i] EXCEPT
                                 !.status = FAILED,
                                 !.failure_reason = reminders'[i].failure_reason]]_vars

\* C10 witness: a reminder was sent now while a PENDING one scheduled for later
\* stayed PENDING
DispatchedDueOnly ==
    \E i \in ReminderIds : \E j \in ReminderIds :
        /\ reminders[i].status = SENT
        /\ reminders[i].sent_at = now
        /\ reminders[i].telegram_message_id # None
        /\ reminders[j].status = PENDING
        /\ reminders[j].scheduled_for > now

\* C11: a reminder that Dispatch fails on becomes FAILED with a non-empty
\* failure_reason (without a call of the channel when its addressee is not
\* linked), a FAILED reminder is never touched or sent again, and the channel
\* is asked to deliver each reminder at most once
DispatchFailsOnce ==
    [][/\ \A i \in ReminderIds :
             /\ (reminders[i].status # FAILED /\ reminders'[i].status = FAILED) =>
                   reminders'[i].failure_reason # ""
             /\ reminders[i].status = FAILED =>
                   /\ reminders'[i] = reminders[i]
                   /\ (IF i \in DOMAIN asked' THEN asked'[i] ELSE 0) = Asked(i)
             /\ (IF i \in DOMAIN asked' THEN asked'[i] ELSE 0) <= 1
       /\ (bot /\ send_pending_reminders) =>
             \A i \in ReminderIds :
                 (/\ reminders[i].status = PENDING
                  /\ reminders[i].scheduled_for <= now
                  /\ contacts[reminders[i].contact_id].telegram_id = None) =>
                     /\ reminders'[i].status = FAILED
                     /\ (IF i \in DOMAIN asked' THEN asked'[i] ELSE 0) = Asked(i)]_vars

\* C11 witness: a reminder failed on its unlinked addressee without a call of
\* the channel, and the clock has moved on since
DispatchFailed ==
    \E i \in ReminderIds :
        /\ reminders[i].status = FAILED
        /\ reminders[i].failure_reason = "Contact not linked"
        /\ Asked(i) = 0
        /\ now > reminders[i].scheduled_for

\* the contacts Escalate may notify for reminder i: active, linked, supervisor or
\* admin, of the client of the reminder's location, not the addressee
EligibleTargets(i) ==
    {c \in ContactIds :
        /\ contacts[c].active
        /\ contacts[c].telegram_id # None
        /\ contacts[c].role \in {SUPERVISOR, ADMIN}
        /\ contacts[c].client_id = locations[reminders[i].location_id].client_id
        /\ c # reminders[i].contact_id}

\* reminder i is SENT, past the escalation threshold and below the maximum of
\* escalation attempts
PastThreshold(i) ==
    /\ reminders[i].status = SENT
    /\ reminders[i].sent_at < now - EscalationTicks
    /\ reminders[i].escalation_count < MAX_ESCALATION_ATTEMPTS

\* C12: a sweep turns a SENT reminder past the threshold that has an eligible
\* target into ESCALATED, with escalation_count one higher, escalated_at set and
\* escalated_to an eligible target, who is the contact notified (only a reminder
\* whose single target the channel could not reach stays as it was)
EscalatesToTarget ==
    [][(bot /\ check_escalations) =>
          \A i \in ReminderIds :
              (PastThreshold(i) /\ EligibleTargets(i) # {}) =>
                  \/ /\ reminders'[i].escalated_to \in EligibleTargets(i)
                     /\ reminders'[i] =
                           [reminders[i] EXCEPT
                               !.status = ESCALATED,
                               !.escalation_count = @ + 1,
                               !.escalated_at = now,
                               !.escalated_to = reminders'[i].escalated_to]
                     /\ [kind |-> "escalation", reminder_id |-> i,
                         contact_id |-> reminders'[i].escalated_to] \in sent'
                  \/ /\ Cardinality(EligibleTargets(i)) = 1
                     /\ reminders'[i] = reminders[i]]_vars

\* C13: a sweep turns a SENT reminder past the threshold that has no eligible
\* target into ESCALATED, with escalation_count one higher and escalated_at set,
\* leaves escalated_to unset and sends no message for it
SilentEscalation ==
    [][(bot /\ check_escalations) =>
          \A i \in ReminderIds :
              (PastThreshold(i) /\ EligibleTargets(i) = {}) =>
                  /\ reminders[i].escalated_to = None
                  /\ reminders'[i] =
                        [reminders[i] EXCEPT
                            !.status = ESCALATED,
                            !.escalation_count = @ + 1,
                            !.escalated_at = now]
                  /\ \A n \in sent' \ sent : n.reminder_id # i]_vars

\* C13 witness: one sweep escalated a reminder silently and went on to escalate
\* another one to its target
SilentAndNotified ==
    \E i \in ReminderIds : \E j \in ReminderIds :
        /\ reminders[i].status = ESCALATED
        /\ reminders[i].escalated_to = None
        /\ reminders[i].escalation_count = 1
        /\ reminders[j].status = ESCALATED
        /\ reminders[j].escalated_to # None
        /\ reminders[j].escalated_at = reminders[i].escalated_at

\* C14: the authenticity score of a scored record is between 0 and 100,
\* whatever coordinate, distance, time difference, confidence and screenshot
\* flag it was computed from
ScoreInRange ==
    \A k \in RecordIds :
        records[k].authenticity_score # None =>
            records[k].authenticity_score \in 0..100

\* C14 witness: a screenshot-flagged record whose three components add up to
\* less than the penalty is scored 0
ScoreClampedAtZero ==
    \E k \in RecordIds :
        /\ records[k].ai_appears_screenshot = Bool(TRUE)
        /\ records[k].ai_confidence # None /\ records[k].ai_confidence < 40
        /\ records[k].location_verified = Bool(FALSE)
        /\ records[k].authenticity_score = 0

\* the record carries a captured coordinate
Captured(r) == r.photo_latitude # None /\ r.photo_longitude # None

\* the location row of the point table: <<points, verified>>
TableLocation(r) ==
    IF ~Captured(r) THEN <<0, Bool(FALSE)>>
    ELSE IF r.distance_from_expected = None THEN <<15, None>>
    ELSE IF r.distance_from_expected <= 100 THEN <<40, Bool(TRUE)>>
    ELSE IF r.distance_from_expected <= 300 THEN <<30, Bool(TRUE)>>
    ELSE IF r.distance_from_expected <= 500 THEN <<20, Bool(TRUE)>>
    ELSE <<0, Bool(FALSE)>>

\* the time row of the point table: <<points, verified>>
TableTime(r) ==
    IF r.reminder_id = None THEN <<15, None>>
    ELSE IF r.time_diff_minutes \in (0 - 30)..30 THEN <<30, Bool(TRUE)>>
    ELSE IF r.time_diff_minutes \in (0 - 120)..120 THEN <<20, Bool(TRUE)>>
    ELSE IF r.time_diff_minutes \in (0 - 240)..240 THEN <<10, Bool(TRUE)>>
    ELSE <<0, Bool(FALSE)>>

\* the AI row of the point table, 0 before the oracle responded
TableAI(r) ==
    IF r.ai_confidence = None THEN 0
    ELSE IF r.ai_confidence >= 80 THEN 30
    ELSE IF r.ai_confidence >= 60 THEN 20
    ELSE IF r.ai_confidence >= 40 THEN 10
    ELSE 0

\* the sum of the point table, less the screenshot penalty
TableSum(r) ==
    TableLocation(r)[1] + TableTime(r)[1] + TableAI(r)
    - (IF r.ai_appears_screenshot = Bool(TRUE) THEN 50 ELSE 0)

\* C15: the score and the two verified flags of a scored record are those of
\* the point table, the sum clamped to 0..100
ScorerTable ==
    \A k \in RecordIds :
        records[k].authenticity_score # None =>
            /\ records[k].authenticity_score =
                  (IF TableSum(records[k]) < 0 THEN 0
                   ELSE IF TableSum(records[k]) > 100 THEN 100
                   ELSE TableSum(records[k]))
            /\ records[k].location_verified = TableLocation(records[k])[2]
            /\ records[k].time_verified = TableTime(records[k])[2]

\* a record without coordinate and without reminder that the oracle rated 0.9,
\* no screenshot flagged, after the AI verdict was applied
NoEvidenceRated(r) ==
    /\ r.photo_latitude = None /\ r.photo_longitude = None
    /\ r.reminder_id = None /\ r.time_diff_minutes = None
    /\ r.manual_validated = None
    /\ r.ai_validated # None
    /\ r.ai_confidence = 90
    /\ r.ai_appears_screenshot = Bool(FALSE)

\* C16 as stated: such a record is scored 15 + 15 + 30 = 60 and its verdict
\* stays null
NoEvidenceScores60 ==
    \A k \in RecordIds :
        NoEvidenceRated(records[k]) =>
            records[k].authenticity_score = 60 /\ records[k].is_valid = None

\* C16: a record without coordinate and without reminder, rated 0.9 with no
\* screenshot flag, is scored 0 + 15 + 30 = 45 and its verdict stays null
NoEvidenceScores45 ==
    \A k \in RecordIds :
        NoEvidenceRated(records[k]) =>
            records[k].authenticity_score = 45 /\ records[k].is_valid = None

\* C16 witness: the AI verdict was applied to such a record
NoEvidenceScored ==
    \E k \in RecordIds :
        NoEvidenceRated(records[k]) /\ records[k].authenticity_score # None

\* C17: applied to a record with no manual override and a null verdict, the AI
\* verdict is true exactly when the new score is at least 80 and no screenshot
\* is flagged, and null otherwise, never false; distance 50, time difference 10
\* and confidence 0.85 without screenshot give score 100, both flags true and
\* the verdict true
AIVerdictRule ==
    [][last'.op = "verdict" =>
          \A k \in RecordIds :
              (records[k].manual_validated = None /\ records[k].is_valid = None) =>
                  /\ records'[k].is_valid =
                        (IF /\ records'[k].authenticity_score >= 80
                            /\ records'[k].ai_appears_screenshot # Bool(TRUE)
                         THEN Bool(TRUE) ELSE None)
                  /\ (/\ records[k].distance_from_expected = 50
                      /\ records[k].time_diff_minutes = 10
                      /\ records'[k].ai_confidence = 85
                      /\ records'[k].ai_appears_screenshot # Bool(TRUE)) =>
                         /\ records'[k].authenticity_score = 100
                         /\ records'[k].location_verified = Bool(TRUE)
                         /\ records'[k].time_verified = Bool(TRUE)
                         /\ records'[k].is_valid = Bool(TRUE)]_vars

\* C17 witness: the AI verdict approved a record at distance 50 and time
\* difference 10 that no one had validated by hand
AutoApproved ==
    \E k \in RecordIds :
        /\ records[k].manual_validated = None
        /\ records[k].distance_from_expected = 50
        /\ records[k].time_diff_minutes = 10
        /\ records[k].ai_confidence = 85
        /\ records[k].authenticity_score = 100
        /\ records[k].is_valid = Bool(TRUE)

\* C18: a validation task whose oracle call fails, or whose photo cannot be
\* downloaded, leaves the verdict of its record as it was, which is null when
\* no one has validated the record by hand
OracleFailureKeepsVerdict ==
    [][\A k \in RecordIds :
          (\E downloaded \in BOOLEAN : validate_photo_async(k, downloaded, OracleFailed)) =>
              /\ records'[k].is_valid = records[k].is_valid
              /\ records[k].manual_validated = None => records'[k].is_valid = None]_vars

\* C18 witness: the failure result was written to a record with the best
\* location and time components, and its verdict is null
OracleFailedAtBestScore ==
    \E k \in RecordIds :
        /\ records[k].ai_issues = OracleError
        /\ records[k].distance_from_expected = 50
        /\ records[k].time_diff_minutes = 10
        /\ records[k].authenticity_score = 70
        /\ records[k].manual_validated = None
        /\ records[k].is_valid = None

\* C19: a record whose only recorded issue is the oracle's failure has its
\* classifier fields unset and was not scored
OracleFailureLeavesUnset ==
    \A k \in RecordIds :
        records[k].ai_issues = OracleError =>
            /\ records[k].ai_validated = None
            /\ records[k].ai_confidence = None
            /\ records[k].ai_product_detected = None
            /\ records[k].ai_drainage_visible = None
            /\ records[k].ai_appears_screenshot = None
            /\ records[k].authenticity_score = None

\* C20: the verdict of a record is null unless it was validated by hand or the
\* AI verdict found a score of at least 80 without screenshot; it is false only
\* by a manual rejection, and null while the validation task is pending and no
\* one has validated it by hand
VerdictNullUntilDecided ==
    \A k \in RecordIds :
        /\ records[k].is_valid # None =>
              \/ records[k].manual_validated # None
              \/ /\ records[k].ai_validated # None
                 /\ records[k].authenticity_score >= 80
                 /\ records[k].ai_appears_screenshot # Bool(TRUE)
        /\ records[k].is_valid = Bool(FALSE) =>
              records[k].manual_validated = Bool(FALSE)
        /\ (k \in tasks /\ records[k].manual_validated = None) =>
              records[k].is_valid = None

\* C20 witness: handle_photo has committed a record whose validation task has
\* not yet run, and the record reads null
PendingBeforeWriteBack ==
    \E k \in RecordIds :
        /\ last.op = "photo"
        /\ k \in tasks
        /\ records[k].ai_validated = None
        /\ records[k].manual_validated = None
        /\ records[k].is_valid = None

\* the contact's SENT reminders
Unanswered(c) ==
    {i \in ReminderIds : reminders[i].contact_id = c /\ reminders[i].status = SENT}

\* C21: when the photo of a linked contact with SENT reminders is handled, the
\* contact's SENT reminder with the earliest scheduled_for, and no other
\* reminder, becomes COMPLETED with responded_at set and the new record linked,
\* and the record references that reminder and its location
CompletesOldest ==
    [][(/\ last'.op = "photo"
        /\ contacts[last'.id].telegram_id # None
        /\ Unanswered(last'.id) # {}) =>
          /\ Len(records') = Len(records) + 1
          /\ \E i \in Unanswered(last'.id) :
                /\ \A j \in Unanswered(last'.id) :
                      reminders[i].scheduled_for <= reminders[j].scheduled_for
                /\ reminders'[i] = [reminders[i] EXCEPT
                                       !.status = COMPLETED,
                                       !.responded_at = now,
                                       !.compliance_record_id = Len(records')]
                /\ records'[Len(records')].reminder_id = i
                /\ records'[Len(records')].location_id = reminders[i].location_id
                /\ \A j \in ReminderIds \ {i} : reminders'[j] = reminders[j]]_vars

\* the rows a step adds to scheduled_reminders for location l
Created(l) ==
    {i \in DOMAIN reminders' \ DOMAIN reminders : reminders'[i].location_id = l}

\* the non-cancelled reminders of location l scheduled within calendar day D
ScheduledWithin(l, D) ==
    {i \in ReminderIds : /\ reminders[i].location_id = l
                         /\ DateOf(reminders[i].scheduled_for) = D
                         /\ reminders[i].status # CANCELLED}

\* the active linked contacts of the client of location l
Addressees(l) ==
    {c \in ContactIds : /\ contacts[c].client_id = locations[l].client_id
                        /\ contacts[c].active
                        /\ contacts[c].telegram_id # None}

\* location l is due on calendar day D
DueOn(l, D) ==
    /\ locations[l].active
    /\ locations[l].product_id # None
    /\ \/ locations[l].last_compliance_at = None
       \/ D - DateOf(locations[l].last_compliance_at) >= locations[l].frequency_days
    /\ IsoWeekday(D) \in locations[l].reminder_days
    /\ ScheduledWithin(l, D) = {}
    /\ Addressees(l) # {}

\* C22: a run of GenerateDue on day D adds a reminder for a location exactly
\* when the location is active with a product, its cadence has elapsed or it
\* never complied, D's weekday is a reminder day, no non-cancelled reminder of
\* it is scheduled within D and its client has an active linked contact; the
\* reminder is PENDING, scheduled for D at the location's reminder_time and
\* addressed to such a contact
GeneratesExactlyDue ==
    [][last'.op = "generate" =>
          \A l \in LocationIds :
              /\ Created(l) # {} <=> DueOn(l, DateOf(now))
              /\ Cardinality(Created(l)) <= 1
              /\ \A i \in Created(l) :
                    /\ reminders'[i].status = PENDING
                    /\ reminders'[i].scheduled_for =
                          DateOf(now) * TicksPerDay + locations[l].reminder_time
                    /\ reminders'[i].contact_id \in Addressees(l)]_vars

\* C23: the reminder a run of GenerateDue adds for a location is addressed to
\* the earliest-created active linked contact of the location's client
AddresseeIsFirstCreated ==
    [][last'.op = "generate" =>
          \A l \in LocationIds : \A i \in Created(l) :
              /\ reminders'[i].contact_id \in Addressees(l)
              /\ \A c \in Addressees(l) : reminders'[i].contact_id <= c]_vars

\* C25: no two non-cancelled reminders of one location are scheduled within
\* the same calendar day, manual reminders included
OnePerLocationDay ==
    \A i \in ReminderIds : \A j \in ReminderIds :
        (/\ i # j
         /\ reminders[i].location_id = reminders[j].location_id
         /\ reminders[i].status # CANCELLED
         /\ reminders[j].status # CANCELLED)
        => DateOf(reminders[i].scheduled_for) # DateOf(reminders[j].scheduled_for)

\* C26: in a run of GenerateDue during which the lookup of one location finds
\* more than one non-cancelled reminder today, every other due location still
\* gets its reminder
GenerateIsolatesLocations ==
    [][last'.op = "generate" =>
          \A l \in LocationIds :
              (/\ DueOn(l, DateOf(now))
               /\ \E bad \in LocationIds \ {l} :
                      Cardinality(ScheduledWithin(bad, DateOf(now))) > 1)
              => Created(l) # {}]_vars

\* C24: the status reported for a location is critical when it never
\* reported; otherwise, with d the whole days since its last compliance and f
\* its frequency_days, ok for d <= f, pending for f < d <= 1.5 f, overdue for
\* 1.5 f < d <= 2 f and critical for d > 2 f
StatusClassification ==
    last.op \in {"locations-status", "by-location"} =>
        LET f == locations[last.id].frequency_days
            at == locations[last.id].last_compliance_at
            d == last.days_since_compliance
        IN  /\ last.status \in {"ok", "pending", "overdue", "critical"}
            /\ at = None => d = None /\ last.status = "critical"
            /\ at # None =>
                  /\ d * TicksPerDay <= now - at
                  /\ now - at < (d + 1) * TicksPerDay
                  /\ last.status = "ok" <=> d <= f
                  /\ last.status = "pending" <=> (f < d /\ 2 * d <= 3 * f)
                  /\ last.status = "overdue" <=> (3 * f < 2 * d /\ d <= 2 * f)
                  /\ last.status = "critical" <=> d > 2 * f

\* C24 witness: a location with frequency_days 3 last complied 4 whole days
\* ago is reported pending
PendingReported ==
    /\ last.op = "locations-status"
    /\ locations[last.id].frequency_days = 3
    /\ last.days_since_compliance = 4
    /\ last.status = "pending"

\* C27: a dispatch tick takes every reminder of its batch to SENT or FAILED,
\* whichever of them fail; an escalation sweep escalates every reminder of its
\* batch except those whose own target lookup or channel call fails, which it
\* leaves as they were
BatchIsolation ==
    [][/\ (bot /\ send_pending_reminders) =>
             \A i \in DispatchDue(reminders) : reminders'[i].status \in {SENT, FAILED}
       /\ (bot /\ check_escalations) =>
             \A i \in EscalationDue(reminders) :
                 \/ /\ reminders'[i].status = ESCALATED
                    /\ reminders'[i].escalation_count = reminders[i].escalation_count + 1
                 \/ /\ reminders'[i] = reminders[i]
                    /\ Supervisors(reminders[i]) # {}]_vars

\* C27 witness: a sweep escalated one reminder of its batch and left another
\* one of the same batch SENT
FailedBesideEscalated ==
    \E i \in ReminderIds : \E j \in ReminderIds :
        /\ reminders[j].status = ESCALATED
        /\ reminders[i].status = SENT
        /\ reminders[i].sent_at <= reminders[j].escalated_at - EscalationTicks
        /\ reminders[i].escalation_count < MAX_ESCALATION_ATTEMPTS

\* C28: a SENT reminder whose sent_at is older than the threshold, with fewer
\* than the maximum of escalation attempts, eventually is ESCALATED or
\* COMPLETED
NeverStuckInSent ==
    \A i \in 1..MaxReminders :
        (/\ i \in ReminderIds
         /\ reminders[i].status = SENT
         /\ reminders[i].sent_at < now - EscalationTicks
         /\ reminders[i].escalation_count < MAX_ESCALATION_ATTEMPTS)
        ~> (i \in ReminderIds /\ reminders[i].status \in {ESCALATED, COMPLETED})

\* C29: once CancelReminder has returned ok for a reminder (status CANCELLED),
\* the reminder never becomes SENT or FAILED, and a reminder becomes SENT only
\* from the status PENDING it has when Dispatch commits
CancelDispatchRace ==
    [][\A i \in ReminderIds :
          /\ reminders[i].status = CANCELLED =>
                reminders'[i].status \notin {SENT, FAILED}
          /\ (reminders'[i].status = SENT /\ reminders[i].status # SENT) =>
                reminders[i].status = PENDING]_vars

\* C30: when a manual override v was committed after validate_photo_async read
\* the record and before it writes back, the verdict after the write-back is v
OverrideNotLost ==
    [][(/\ val.pc = "read"
        /\ val'.pc = "idle"
        /\ val.loaded.manual_validated = None
        /\ records[val.id].manual_validated # None) =>
             records'[val.id].is_valid = records[val.id].manual_validated]_vars

\* C31: however two submissions interleave, at most one evidence record
\* references a given reminder, and a reminder linked to a record is the one
\* that record references
OneRecordPerReminder ==
    \A i \in ReminderIds :
        /\ Cardinality({k \in RecordIds : records[k].reminder_id = i}) <= 1
        /\ reminders[i].compliance_record_id # None =>
              records[reminders[i].compliance_record_id].reminder_id = i

\* C32: after the write-back of an oracle answer that reports a screenshot, the
\* record is screenshot-flagged, its score carries the penalty of 50 and its
\* verdict is not true
ScreenshotReachesScorer ==
    [][\A result \in OracleAnswers :
          (/\ Truthy(Get(result, "appears_screenshot", Bool(FALSE)))
           /\ 1 \in RecordIds
           /\ validate_photo_async(1, TRUE, model_dump(result))) =>
              LET r == records'[1]
              IN  /\ r.ai_appears_screenshot = Bool(TRUE)
                  /\ r.authenticity_score =
                        Max(0, LocationFactor(r)[1] + TimeFactor(r)[1]
                               + ConfidenceFactor(r) - 50)
                  /\ r.is_valid # Bool(TRUE)]_vars

\* C33: no reminder has an escalation_count above 1, and no step changes the
\* escalation of a reminder that is ESCALATED
EscalatedAtMostOnce ==
    [][\A i \in ReminderIds :
          /\ reminders'[i].escalation_count <= 1
          /\ reminders[i].status = ESCALATED =>
                /\ reminders'[i].escalation_count = reminders[i].escalation_count
                /\ reminders'[i].escalated_at = reminders[i].escalated_at
                /\ reminders'[i].escalated_to = reminders[i].escalated_to]_vars

\* C33 witness: a reminder escalated once at an earlier tick, still past the
\* threshold and below the maximum of attempts
EscalatedEarlier ==
    \E i \in ReminderIds :
        /\ bot
        /\ reminders[i].status = ESCALATED
        /\ reminders[i].escalation_count = 1
        /\ reminders[i].escalation_count < MAX_ESCALATION_ATTEMPTS
        /\ reminders[i].escalated_at < now
        /\ reminders[i].sent_at <= now - EscalationTicks

FieldsAgreeWithStatus ==
    \A i \in ReminderIds :
        LET r == reminders[i]
        IN  /\ r.compliance_record_id # None <=> r.status = COMPLETED
            /\ r.responded_at # None <=> r.status = COMPLETED
            /\ r.sent_at # None <=> r.status \in {SENT, COMPLETED, ESCALATED}
            /\ r.escalated_at # None <=> r.status = ESCALATED
            /\ r.escalation_count > 0 <=> r.status = ESCALATED
            /\ r.failure_reason # "" <=> r.status = FAILED

\* C35 witness: a COMPLETED reminder beside an ESCALATED or FAILED one
CompletedBesideOthers ==
    \E i, j \in ReminderIds :
        /\ reminders[i].status = COMPLETED
        /\ reminders[i].compliance_record_id \in RecordIds
        /\ reminders[j].status \in {ESCALATED, FAILED}

\* C36: a record without manual override whose verdict is true has a stored
\* score of at least 80 and is not screenshot-flagged, after any number of AI
\* verdicts
VerdictAgreesWithScore ==
    \A k \in RecordIds :
        (records[k].manual_validated = None /\ records[k].is_valid = Bool(TRUE)) =>
            /\ records[k].authenticity_score # None
            /\ records[k].authenticity_score >= 80
            /\ ~Truthy(records[k].ai_appears_screenshot)

\* C37: when the captured coordinate and the coordinate of the location are
\* both present, a component equal to 0 included, the record has the distance
\* of the two, and the scored record has the points and the flag of the tier
\* of that distance
ZeroCoordinateCounts ==
    (/\ photo.pc = "done"
     /\ photo.expected[1] # None /\ photo.expected[2] # None) =>
        LET r == records[1]
            tier == IF photo.haversine <= 100 THEN <<40, Bool(TRUE)>>
                    ELSE IF photo.haversine <= 300 THEN <<30, Bool(TRUE)>>
                    ELSE IF photo.haversine <= 500 THEN <<20, Bool(TRUE)>>
                    ELSE <<0, Bool(FALSE)>>
        IN  /\ r.distance_from_expected = photo.haversine
            /\ r.authenticity_score # None =>
                  /\ r.location_verified = tier[2]
                  /\ r.authenticity_score = tier[1] + TimeFactor(r)[1]

\* C38: with the channel client initialised, a PENDING reminder whose
\* scheduled time has passed eventually is SENT or FAILED, also when more
\* reminders are due than one run of the dispatch job takes
DispatchProgress ==
    \A i \in 1..MaxReminders :
        (/\ bot
         /\ i \in ReminderIds
         /\ reminders[i].status = PENDING
         /\ reminders[i].scheduled_for <= now)
        ~> (i \in ReminderIds /\ reminders[i].status \in {SENT, FAILED})

\* C38 witness: a reminder was dispatched by a run that left another due
\* reminder PENDING
BatchCutShort ==
    \E i, j \in ReminderIds :
        /\ reminders[i].status = SENT
        /\ reminders[j].status = PENDING
        /\ reminders[j].scheduled_for <= reminders[i].sent_at

\* C39: a run of GenerateDue creates one new PENDING reminder, scheduled
\* today, for a due location whose reminders of today are all cancelled, and
\* none for a location that has a non-cancelled reminder today
RegeneratesAfterCancel ==
    [][last'.op = "generate" =>
          \A l \in LocationIds :
              LET today == DateOf(now)
                  new == {i \in DOMAIN reminders' \ DOMAIN reminders :
                             reminders'[i].location_id = l}
              IN  /\ (/\ ReachesLookup(l, today)
                      /\ RemindersOn(l, today) = {}
                      /\ \E i \in ReminderIds :
                            /\ reminders[i].location_id = l
                            /\ DateOf(reminders[i].scheduled_for) = today
                            /\ reminders[i].status = CANCELLED)
                     => /\ Cardinality(new) = 1
                        /\ \A i \in new :
                              /\ reminders'[i].status = PENDING
                              /\ DateOf(reminders'[i].scheduled_for) = today
                  /\ RemindersOn(l, today) # {} => new = {}]_vars

\* C39 witness: today's reminder was cancelled, a run created a new one and
\* the run after it has ended with that one still the only one
RegeneratedOnce ==
    \E i, j \in ReminderIds :
        /\ last.op = "generate"
        /\ last.nth = 2
        /\ reminders[i].status = CANCELLED
        /\ reminders[j].status = PENDING
        /\ reminders[i].location_id = reminders[j].location_id
        /\ DateOf(reminders[i].scheduled_for) = DateOf(now)
        /\ DateOf(reminders[j].scheduled_for) = DateOf(now)
        /\ RemindersOn(reminders[j].location_id, DateOf(now)) = {j}

\* C40: every photo of a linked contact adds an evidence record of that
\* contact, with or without a coordinate shared beforehand, and completes one
\* of the contact's SENT reminders when there is one
EveryEvidencePersisted ==
    [][(last'.op = "photo" /\ contacts[last'.id].telegram_id # None) =>
          /\ Len(records') = Len(records) + 1
          /\ records'[Len(records')].contact_id = last'.id
          /\ Unanswered(last'.id) # {} =>
                \E i \in Unanswered(last'.id) : reminders'[i].status = COMPLETED]_vars

=============================================================================
